---------------------------- MODULE Spec2Model ----------------------------
(***************************************************************************)
(* Model of the study-plan generator (src/models/study_planner.py) and of  *)
(* the question-answering client (src/models/chatbot.py).                  *)
(*                                                                         *)
(* The planner computes hours in IEEE doubles, and the outcome of its      *)
(* comparisons depends on their rounding (3 * 1.4 is below 4.2).  The      *)
(* model computes every double exactly.  A double is a record [u, e]: u is *)
(* the decimal value the program means, in units of 1/300 hour (a tenth of *)
(* an hour is 30 units, a hundredth 3 units, a minute 5 units), and e is   *)
(* the rounding error the double carries, in units of 2^-56 / 300 hour; e  *)
(* = 0 says the double is the decimal value itself.  Every operation on    *)
(* doubles rounds its exact result to 53 significant bits, ties to even.   *)
(* sum() adds from left to right, as CPython does up to 3.11.              *)
(*                                                                         *)
(* Calendar dates, the subject name and the wording of messages, tips and  *)
(* activities are presentation only: a text is one tag, with the numbers   *)
(* it is formatted from beside it.                                         *)
(***************************************************************************)
EXTENDS Integers, Sequences, FiniteSets, TLC

\* ------------------------------------------------------------------ bounds
MaxTopics == 2
MaxDays == 4
LongDeadline == 15
MaxAnswerLen == 3

\* ----------------------------------------------------------- IEEE doubles
\* With respect to a number U of units per hour, the record [u, e] stands
\* for (u * 2^56 + e) / (U * 2^56) hour.  Every double of the planner is a
\* multiple of 2^-56 hour: all are below 2^7 and, unless 0, sums and
\* differences of doubles that are at least 2^-4.  [u, e] is such a
\* multiple when u * 2^56 + e is a multiple of U.
HourUnits == 5 * 60
Tenth == HourUnits \div 10
MinuteUnits == HourUnits \div 60
\* the unit of the products of _calculate_topic_times, 1/1000 hour
FineUnits == 10 * 10 * 10
GridBits == 56

\* the element of a set of one element.  In The({ e : v \in {x} }) the
\* operand x is evaluated once, however often e uses v.
The(S) == CHOOSE r \in S : TRUE

Dbl(units, err) == [u |-> units, e |-> err]
DZero == Dbl(0, 0)

\* comparisons of doubles given in the same unit
DLt(x, y) == x.u < y.u \/ (x.u = y.u /\ x.e < y.e)
DLe(x, y) == x.u < y.u \/ (x.u = y.u /\ x.e <= y.e)
DGt(x, y) == DLt(y, x)
DGe(x, y) == DLe(y, x)
\* min(x, y)
DMin(x, y) == The({ IF DLe(v, w) THEN v ELSE w : v \in {x}, w \in {y} })
DNeg(x) == Dbl(-x.u, -x.e)
DIsNeg(x) == x.u < 0 \/ (x.u = 0 /\ x.e < 0)

\* 2^m modulo q, for 0 <= m <= 56 and 0 < q < 2^15
Pow2Mod(m, q) == (((2 ^ (m \div 2)) % q) * ((2 ^ (m - (m \div 2))) % q)) % q

\* (u * 2^56) modulo (U * 2^k), for u >= 0 and 0 <= k <= 56
GridResidue(u, k, U) == (2 ^ k) * (((u % U) * Pow2Mod(GridBits - k, U)) % U)

\* x >= 2^j hours, for x >= 0
AtLeastPow2(x, j, U) ==
  LET c == IF j >= 0 THEN x.u - U * (2 ^ j) ELSE x.u * (2 ^ (-j)) - U
  IN  c > 0 \/ (c = 0 /\ x.e >= 0)

\* the doubles around a value x in [2^j, 2^(j+1)), j >= -4, are 2^(j+4)
\* multiples of 2^-56 apart: the binary logarithm of that spacing
SpacingBits(x, U) == Cardinality({ j \in -3 .. 6 : AtLeastPow2(x, j, U) })

\* the exact value x >= 0 rounded to the nearest double, ties to the even
\* mantissa
RoundOnGrid(x, k, U) ==
  LET m == U * (2 ^ k)
      w == (GridResidue(x.u, k, U) + x.e) % m
      odd == (GridResidue(x.u, k + 1, U) + x.e - w) % (2 * m) >= m
      up == 2 * w > m \/ (2 * w = m /\ odd)
  IN  IF w = 0 THEN x
      ELSE IF up THEN Dbl(x.u, x.e + m - w)
      ELSE Dbl(x.u, x.e - w)

DRoundPos(x, U) ==
  The({ The({ RoundOnGrid(v, k, U) : k \in {SpacingBits(v, U)} }) : v \in {x} })

DRound(x, U) ==
  The({ IF DIsNeg(v) THEN DNeg(DRoundPos(DNeg(v), U)) ELSE DRoundPos(v, U) :
        v \in {x} })

\* the doubles of an integer, of the decimals k / 10 and h / 100, and of
\* the quotient m / 60, in units of 1/300 hour
DFromInt(n) == Dbl(n * HourUnits, 0)
DFromTenths(k) == DRoundPos(Dbl(k * Tenth, 0), HourUnits)
DFromHundredths(h) == DRoundPos(Dbl(3 * h, 0), HourUnits)
DFromMinutes(m) == DRoundPos(Dbl(m * MinuteUnits, 0), HourUnits)

\* x + y and x - y
DAdd(x, y) ==
  The({ DRound(Dbl(v.u + w.u, v.e + w.e), HourUnits) : v \in {x}, w \in {y} })
DSub(x, y) ==
  The({ DRound(Dbl(v.u - w.u, v.e - w.e), HourUnits) : v \in {x}, w \in {y} })

\* x * y for x, y >= 0 whose decimal product is a whole number of units.
\* The exact product is [u, (b + c / 2^56) / U] with the u, b and c below;
\* it is rounded like a sum, c deciding when b leaves the product half way
\* between two doubles.
ProductOnGrid(x, y, k, U) ==
  LET u == (x.u * y.u) \div U
      b == x.u * y.e + y.u * x.e
      c == x.e * y.e
      g == U * (2 ^ k)
      m == U * g
      t == U * GridResidue(u, k, U) + b
      r == t % m
      below == (t - r) \div m
      odd == ((IF GridResidue(u, k + 1, U) >= g THEN 1 ELSE 0) + below) % 2 = 1
      up == 2 * r > m \/ (2 * r = m /\ (c > 0 \/ (c = 0 /\ odd)))
  IN  Dbl(u, g * (below + (IF up THEN 1 ELSE 0)) - GridResidue(u, k, U))

\* the binary logarithm of the spacing of the doubles around x * y
ProductSpacingBits(x, y, U) ==
  LET u == (x.u * y.u) \div U
      b == x.u * y.e + y.u * x.e
      c == x.e * y.e
  IN  SpacingBits(Dbl(u, IF b > 0 \/ (b = 0 /\ c >= 0) THEN 0 ELSE -1), U)

DMul(x, y, U) ==
  The({ The({ ProductOnGrid(v, w, k, U) : k \in {ProductSpacingBits(v, w, U)} }) :
        v \in {x}, w \in {y} })

\* x / d for a double x >= 0 in units of 1/300 hour and an integer d > 0:
\* the quotient in units of 1/(300 * d) hour
DDivInt(x, d) == DRoundPos(x, HourUnits * d)

\* the whole number of tenths nearest to the exact value of the double
\* x >= 0, ties to even: the digits of round(x, 1) and of f"{x:.1f}"
TenthsOf(x, U) ==
  LET tenth == U \div 10
      q == x.u \div tenth
      rem == x.u % tenth
      up == 2 * rem > tenth
              \/ (2 * rem = tenth /\ (x.e > 0 \/ (x.e = 0 /\ q % 2 = 1)))
  IN  IF up THEN q + 1 ELSE q

\* round(x, 1) of a double x >= 0
DRoundTenths(x) == The({ DFromTenths(TenthsOf(v, HourUnits)) : v \in {x} })

RECURSIVE BitLen(_)
BitLen(n) == IF n = 0 THEN 0 ELSE 1 + BitLen(n \div 2)

\* int(c * x) for an integer c > 0 and a double x > 0.  The double product
\* is the exact product rounded to 53 bits.  Its decimal meaning is c * u
\* units; unless that is a whole number m of hours the rounding is too
\* small to change the floor, and otherwise a product below m is rounded
\* to m when it is within half a spacing of it.
FloorOfTimes(c, x) ==
  LET n == c * x.u
      m == n \div HourUnits
  IN  IF n % HourUnits # 0 \/ x.e >= 0 THEN m
      ELSE IF -(c * x.e) <= HourUnits * (2 ^ (BitLen(m - 1) + 2)) THEN m
      ELSE m - 1

\* int(x / y) for doubles x >= y > 0.  q is the floor of the exact
\* quotient; the double quotient, the exact one rounded to 53 bits, is
\* q + 1 when the exact quotient is within half a spacing below q + 1.
FloorOfQuot(x, y) ==
  LET qi == x.u \div y.u
      q == IF x.u % y.u > 0 \/ x.e - qi * y.e >= 0 THEN qi ELSE qi - 1
      n == q + 1
      gap == n * y.e - x.e
      half == y.u * (2 ^ (BitLen(q) + 2))
  IN  IF n * y.u = x.u /\ (gap < half \/ (gap = half /\ y.e >= 0))
        THEN n ELSE q

RECURSIVE DSum(_)
\* sum(s): the elements are added to 0 from left to right
DSum(s) ==
  IF s = << >> THEN DZero ELSE DAdd(DSum(SubSeq(s, 1, Len(s) - 1)), s[Len(s)])

\* --------------------------------------------------------------- constants
Paces == {"slow", "moderate", "fast"}
Patterns == {"pomodoro", "deep_work", "short_burst"}
Difficulties == {"easy", "medium", "hard"}

\* self.learning_pace, the hours and the ratios in tenths
learning_pace ==
  [slow     |-> [hours_per_topic |-> 40, revision_ratio |-> 4],
   moderate |-> [hours_per_topic |-> 25, revision_ratio |-> 3],
   fast     |-> [hours_per_topic |-> 15, revision_ratio |-> 2]]

\* self.session_patterns, in minutes
session_patterns ==
  [pomodoro    |-> [session_length |-> 25, break_length |-> 5,  long_break |-> 15],
   deep_work   |-> [session_length |-> 90, break_length |-> 20, long_break |-> 30],
   short_burst |-> [session_length |-> 15, break_length |-> 5,  long_break |-> 10]]

\* session_info["session_length"] / 60 and session_info["break_length"] / 60
SessionLengthHours ==
  [p \in Patterns |-> DFromMinutes(session_patterns[p].session_length)]
BreakLengthHours ==
  [p \in Patterns |-> DFromMinutes(session_patterns[p].break_length)]

\* the literals 0.1, 1 and 1.5 of the session tests
MinSessionHours == DFromTenths(1)
OneHour == DFromInt(1)
OneAndAHalfHours == DFromTenths(15)

\* ------------------------------------------------------------ input domain
TopicNames == 1 .. MaxTopics
\* one name that is never a topic of the plan, for profile entries about
\* topics outside the list
AllNames == 1 .. (MaxTopics + 1)
TopicLists == { [i \in 1 .. n |-> i] : n \in 1 .. MaxTopics }
\* daily_available_hours: 1, 1.4 and 2.09
DailyHoursChoices == { DFromHundredths(h) : h \in {100, 140, 209} }
DeadlineChoices == (1 .. MaxDays) \cup {LongDeadline}
PreferredTimesChoices == { <<"morning", "evening">> }
\* weak_areas: none or one topic
WeakAreaChoices(names) == {{}} \cup { {t} : t \in names }
\* difficulty_levels: absent, or a tag for one topic
DifficultyMaps(names) ==
  UNION { [D -> Difficulties] : D \in {{}} \cup { {t} : t \in names } }

\* -------------------------------------------------- _calculate_topic_times
\* the double of the decimal k / 10 in units of 1/1000 hour
DFineFromTenths(k) == DRoundPos(Dbl(k * (FineUnits \div 10), 0), FineUnits)

\* faulty variant: a hard topic is multiplied by 1.2
TopicHoursHardTooLow(topic, p, weak, diffs) ==
  LET base == DFineFromTenths(learning_pace[p].hours_per_topic)
      weighted == IF topic \in weak
                    THEN DMul(base, DFineFromTenths(15), FineUnits)
                    ELSE base
      tag == IF topic \in DOMAIN diffs THEN diffs[topic] ELSE "none"
      hours == IF tag = "hard"
                 THEN DMul(weighted, DFineFromTenths(12), FineUnits)
               ELSE IF tag = "easy"
                 THEN DMul(weighted, DFineFromTenths(7), FineUnits)
               ELSE weighted
  IN  DFromTenths(TenthsOf(hours, FineUnits))

\* lines 112-126: the hours of one topic
TopicHours(topic, p, weak, diffs) ==
  LET base == DFineFromTenths(learning_pace[p].hours_per_topic)
      weighted == IF topic \in weak
                    THEN DMul(base, DFineFromTenths(15), FineUnits)
                    ELSE base
      tag == IF topic \in DOMAIN diffs THEN diffs[topic] ELSE "none"
      hours == IF tag = "hard"
                 THEN DMul(weighted, DFineFromTenths(13), FineUnits)
               ELSE IF tag = "easy"
                 THEN DMul(weighted, DFineFromTenths(7), FineUnits)
               ELSE weighted
  IN  DFromTenths(TenthsOf(hours, FineUnits))

CalculateTopicTimes(tops, p, weak, diffs) ==
  [t \in { tops[i] : i \in DOMAIN tops } |-> TopicHours(t, p, weak, diffs)]

\* ------------------------------------------------------------------- state
VARIABLES
  pc,                    \* control point of the planner call
  pace, pattern, daily_hours, preferred_times, weak_areas,   \* student_profile
  topics, deadline_days, difficulty_levels,                  \* arguments
  topic_times,           \* topic_time_allocation
  total_with_revision, total_hours_available,
  topics_queue, revision_days, study_days,
  day, day_num, topic_progress,
  hours_remaining, day_schedule, daily_plan,
  plan,                  \* value returned by generate_personalized_plan
  chat_pc, question, context, remote, invocations, answer    \* StudyChatbot

inputVars == <<pace, pattern, daily_hours, preferred_times, weak_areas,
               topics, deadline_days, difficulty_levels>>
scheduleVars == <<topics_queue, revision_days, study_days, day, day_num,
                  topic_progress, hours_remaining, day_schedule, daily_plan>>
chatVars == <<chat_pc, question, context, remote, invocations, answer>>
vars == <<pc, inputVars, topic_times, total_with_revision,
          total_hours_available, scheduleVars, plan, chatVars>>

NoPlan == [feasible |-> "unset"]
NoDay == [day |-> 0]
NoRemote == [kind |-> "none"]

TopicSet == { topics[i] : i \in DOMAIN topics }

\* the planner before its call; the chatbot is not in use
ChatIdle ==
  /\ chat_pc = "idle" /\ question = << >> /\ context = << >>
  /\ remote = NoRemote /\ invocations = 0 /\ answer = << >>

LocalsUnset ==
  /\ topic_times = << >> /\ total_with_revision = DZero
  /\ total_hours_available = DZero
  /\ topics_queue = << >> /\ revision_days = 0 /\ study_days = 0
  /\ day = 0 /\ day_num = 0 /\ topic_progress = << >>
  /\ hours_remaining = DZero /\ day_schedule = NoDay /\ daily_plan = << >>
  /\ plan = NoPlan

\* the planner object after construction: no call has been made, and the
\* arguments hold the defaults of lines 42-47
Init ==
  /\ pc = "start"
  /\ pace = "moderate"
  /\ pattern = "pomodoro"
  /\ daily_hours = DFromInt(3)
  /\ preferred_times = << "evening" >>
  /\ topics = << >>
  /\ weak_areas = {}
  /\ difficulty_levels = << >>
  /\ deadline_days = 0
  /\ LocalsUnset
  /\ ChatIdle

\* ------------------------------------------- _generate_infeasible_response
InfeasibleResponse(needed, available, days, dh) ==
  LET hours_short == DSub(needed, available)
      \* in units of 1/(300 * days) hour
      new_daily_hours == DDivInt(needed, days)
      new_deadline == FloorOfQuot(needed, dh) + 1
      option1 ==
        IF DLe(new_daily_hours, Dbl(12 * HourUnits * days, 0))
          THEN << [kind |-> "daily_hours",
                   hours_tenths |-> TenthsOf(new_daily_hours, HourUnits * days),
                   instead_of |-> dh] >>
          ELSE << >>
      option2 == << [kind |-> "extend_deadline", by_days |-> new_deadline - days] >>
      option3 == << [kind |-> "fast_pace"] >>
  IN  [feasible |-> FALSE,
       message |-> [kind |-> "not_enough_time",
                    need_tenths |-> TenthsOf(needed, HourUnits),
                    have_tenths |-> TenthsOf(available, HourUnits)],
       hours_short |-> DRoundTenths(hours_short),
       suggestions |-> option1 \o option2 \o option3]

\* ------------------------------------------------ generate_personalized_plan
\* line 151: max(2, int(deadline_days * 0.2))
RevisionDays(days) ==
  LET fifth == FloorOfTimes(days, DFromTenths(2))
  IN  IF 2 >= fifth THEN 2 ELSE fifth

\* lines 58-63: total_hours_needed * (1 + revision_ratio)
NeededWithRevision(tt, tops, p) ==
  LET total_hours_needed == DSum([i \in 1 .. Len(tops) |-> tt[tops[i]]])
      revision_ratio == DFromTenths(learning_pace[p].revision_ratio)
  IN  DMul(total_hours_needed, DAdd(DFromInt(1), revision_ratio), HourUnits)

\* faulty variant: the test tolerates an overrun of up to one hour
InfeasibleWithSlack(needed, available) ==
  DGt(needed, DAdd(available, DFromInt(1)))

\* the feasibility test of line 66
Infeasible(needed, available) == DGt(needed, available)

\* the call with its arguments: lines 42-72, and on the feasible branch the
\* set-up of _create_daily_schedule (lines 143-155) up to its first loop
GeneratePlan ==
  /\ pc = "start"
  /\ pace' \in Paces
  /\ pattern' \in Patterns
  /\ daily_hours' \in DailyHoursChoices
  /\ preferred_times' \in PreferredTimesChoices
  /\ topics' \in TopicLists
  /\ weak_areas' \in WeakAreaChoices(TopicSet')
  /\ difficulty_levels' \in DifficultyMaps(TopicSet')
  /\ deadline_days' \in DeadlineChoices
  /\ \E tt \in { CalculateTopicTimes(topics', pace', weak_areas',
                                      difficulty_levels') } :
     \E needed \in { NeededWithRevision(tt, topics', pace') } :
     \E available \in { DMul(DFromInt(deadline_days'), daily_hours', HourUnits) } :
       /\ topic_times' = tt
       /\ total_with_revision' = needed
       /\ total_hours_available' = available
       /\ IF Infeasible(needed, available)
            THEN /\ plan' = InfeasibleResponse(needed, available,
                                               deadline_days', daily_hours')
                 /\ pc' = "done"
                 /\ UNCHANGED scheduleVars
            ELSE /\ topics_queue' = topics'
                 /\ revision_days' = RevisionDays(deadline_days')
                 /\ study_days' = deadline_days' - revision_days'
                 /\ day_num' = 0
                 /\ day' = 0
                 /\ topic_progress' = [t \in TopicSet' |-> DZero]
                 /\ daily_plan' = << >>
                 /\ pc' = IF 0 < study_days' THEN "study" ELSE "revision"
                 /\ UNCHANGED <<hours_remaining, day_schedule, plan>>
  /\ UNCHANGED chatVars

\* ---------------------------------------------------- _create_daily_schedule
PreferredTime(d) == preferred_times[(d % Len(preferred_times)) + 1]

\* lines 158-171: a study day begins
StartStudyDay ==
  /\ pc = "study"
  /\ day < study_days
  /\ day_num' = day_num + 1
  /\ day_schedule' = [day |-> day_num + 1,
                      phase |-> "Learning",
                      preferred_time |-> PreferredTime(day),
                      sessions |-> << >>,
                      total_hours |-> DZero]
  /\ hours_remaining' = daily_hours
  /\ pc' = "sessions"
  /\ UNCHANGED <<inputVars, topic_times, total_with_revision,
                 total_hours_available, topics_queue, revision_days,
                 study_days, day, topic_progress, daily_plan, plan, chatVars>>

\* line 174: while hours_remaining > 0 and topics_queue
LoopCondition == DGt(hours_remaining, DZero) /\ topics_queue # << >>

\* faulty variant: the session length ignores the hours left in the day
SessionHoursIgnoringDay(current_topic) ==
  LET time_needed == DSub(topic_times[current_topic],
                          topic_progress[current_topic])
  IN  DMin(SessionLengthHours[pattern], time_needed)

\* lines 176-183
SessionHours(current_topic) ==
  LET time_needed == DSub(topic_times[current_topic],
                          topic_progress[current_topic])
  IN  DMin(DMin(SessionLengthHours[pattern], hours_remaining), time_needed)

\* line 185
LongEnough(session_hours) == DGt(session_hours, MinSessionHours)

\* _generate_activities: one tag for the list chosen by the duration, and
\* one for the weak-area line
GenerateActivities(duration_hours, is_weak) ==
  << IF DGe(duration_hours, OneAndAHalfHours) THEN "long_session"
     ELSE IF DGe(duration_hours, OneHour) THEN "medium_session"
     ELSE "short_session" >>
  \o (IF is_weak THEN << "extra_focus" >> ELSE << >>)

\* line 209
TopicComplete(progress, allocated) == DGe(progress, allocated)

\* faulty variant: the front topic is not removed
PopFrontForgotten(queue) == queue

\* faulty variant: the front topic is moved to the back of the queue
PopFrontRotate(queue) == Append(Tail(queue), Head(queue))

\* lines 210 and 212: topics_queue.pop(0)
PopFront(queue) == Tail(queue)

\* lines 174-212: one iteration of the while loop.  The field hours of a
\* session is the local session_hours, which the program's dictionary
\* holds as duration_minutes only.
ScheduleSession ==
  /\ pc = "sessions"
  /\ LoopCondition
  /\ LET current_topic == Head(topics_queue)
         is_weak == current_topic \in weak_areas
     IN  \E session_hours \in { SessionHours(current_topic) } :
           IF LongEnough(session_hours)
             THEN \E progress \in { DAdd(topic_progress[current_topic],
                                        session_hours) } :
                  \E left \in { DSub(hours_remaining, session_hours) } :
                    /\ day_schedule' =
                         [day_schedule EXCEPT
                            !.sessions =
                               Append(@, [topic |-> current_topic,
                                          duration_minutes |->
                                            FloorOfTimes(60, session_hours),
                                          activities |->
                                            GenerateActivities(session_hours,
                                                               is_weak),
                                          is_weak_area |-> is_weak,
                                          hours |-> session_hours]),
                            !.total_hours = DAdd(@, session_hours)]
                    /\ topic_progress' =
                         [topic_progress EXCEPT ![current_topic] = progress]
                    /\ hours_remaining' =
                         IF DGt(left, DZero)
                           THEN DSub(left, BreakLengthHours[pattern])
                           ELSE left
                    /\ topics_queue' =
                         IF TopicComplete(progress, topic_times[current_topic])
                           THEN PopFront(topics_queue)
                           ELSE topics_queue
             ELSE /\ topics_queue' = PopFront(topics_queue)
                  /\ UNCHANGED <<day_schedule, topic_progress, hours_remaining>>
  /\ UNCHANGED <<pc, inputVars, topic_times, total_with_revision,
                 total_hours_available, revision_days, study_days, day,
                 day_num, daily_plan, plan, chatVars>>

\* line 214 and the step of the for loop of line 158
EndStudyDay ==
  /\ pc = "sessions"
  /\ ~LoopCondition
  /\ daily_plan' = Append(daily_plan, day_schedule)
  /\ IF day + 1 < study_days
       THEN day' = day + 1 /\ pc' = "study"
       ELSE day' = 0 /\ pc' = "revision"
  /\ UNCHANGED <<inputVars, topic_times, total_with_revision,
                 total_hours_available, topics_queue, revision_days,
                 study_days, day_num, topic_progress, hours_remaining,
                 day_schedule, plan, chatVars>>

\* faulty variant: the phase tests are off by one day
RevisionPhaseOffByOne(d, rd) ==
  IF d = rd THEN "Final Review & Mock Test"
  ELSE IF d = rd - 1 THEN "Intensive Revision"
  ELSE "Revision"

\* lines 221-226
RevisionPhase(d, rd) ==
  IF d = rd - 1 THEN "Final Review & Mock Test"
  ELSE IF d = rd - 2 THEN "Intensive Revision"
  ELSE "Revision"

\* _generate_revision_sessions; the weak areas are taken in the order of
\* their names.  (daily_hours * 60) // n is the floor of the quotient,
\* which is the floor of int(daily_hours * 60) / n.
GenerateRevisionSessions(phase) ==
  LET names == [i \in 1 .. (MaxTopics + 1) |-> i]
      weak == SelectSeq(names, LAMBDA n : n \in weak_areas)
      minutes == FloorOfTimes(60, daily_hours)
  IN  IF phase = "Final Review & Mock Test"
        THEN << [topic |-> "All Topics",
                 duration_minutes |-> FloorOfTimes(30, daily_hours),
                 activities |-> << "quick_review", "mock_test", "review_mistakes" >>] >>
      ELSE IF phase = "Intensive Revision"
        THEN [i \in 1 .. Len(weak) |->
                [topic |-> weak[i],
                 duration_minutes |->
                   minutes \div (IF Len(weak) >= 1 THEN Len(weak) ELSE 1),
                 activities |-> << "intensive_review", "difficult_problems",
                                   "clarify_doubts" >>,
                 is_weak_area |-> TRUE]]
      ELSE [i \in 1 .. Len(topics) |->
              [topic |-> topics[i],
               duration_minutes |-> minutes \div Len(topics),
               activities |-> << "review_notes", "mixed_problems" >>]]

\* lines 217-239: one iteration of the revision loop
RevisionDay ==
  /\ pc = "revision"
  /\ day < revision_days
  /\ LET phase == RevisionPhase(day, revision_days)
         schedule == [day |-> day_num + 1,
                      phase |-> phase,
                      preferred_time |-> PreferredTime(day),
                      sessions |-> GenerateRevisionSessions(phase),
                      total_hours |-> daily_hours]
     IN  /\ day_schedule' = schedule
         /\ daily_plan' = Append(daily_plan, schedule)
  /\ day_num' = day_num + 1
  /\ IF day + 1 < revision_days
       THEN day' = day + 1 /\ pc' = "revision"
       ELSE day' = day + 1 /\ pc' = "return"
  /\ UNCHANGED <<inputVars, topic_times, total_with_revision,
                 total_hours_available, topics_queue, revision_days,
                 study_days, topic_progress, hours_remaining, plan, chatVars>>

\* _generate_personalized_tips, one tag per tip
PersonalizedTips ==
  (IF pace = "slow" THEN << "take_your_time", "detailed_notes" >>
   ELSE IF pace = "fast" THEN << "dont_skip_revision", "advanced_problems" >>
   ELSE << >>)
  \o (IF pattern = "pomodoro" THEN << "pomodoro_timer" >>
      ELSE IF pattern = "deep_work" THEN << "no_distractions" >>
      ELSE << >>)
  \o (IF weak_areas # {} THEN << "extra_focus", "study_partner" >> ELSE << >>)
  \o << "stay_hydrated", "sleep" >>

\* line 241 and lines 86-97: the feasible plan is assembled and returned
ReturnPlan ==
  /\ pc = "return"
  /\ plan' = [feasible |-> TRUE,
              subject |-> "subject",
              student_profile |-> [learning_pace |-> pace,
                                   study_pattern |-> pattern,
                                   daily_available_hours |-> daily_hours,
                                   preferred_times |-> preferred_times,
                                   weak_areas |-> weak_areas],
              total_topics |-> Len(topics),
              deadline |-> deadline_days,
              total_hours_needed |-> DRoundTenths(total_with_revision),
              total_hours_available |-> total_hours_available,
              buffer_hours |-> DRoundTenths(DSub(total_hours_available,
                                                 total_with_revision)),
              daily_plan |-> daily_plan,
              study_tips |-> PersonalizedTips]
  /\ pc' = "done"
  /\ UNCHANGED <<inputVars, topic_times, total_with_revision,
                 total_hours_available, scheduleVars, chatVars>>

Next ==
  \/ GeneratePlan
  \/ StartStudyDay
  \/ ScheduleSession
  \/ EndStudyDay
  \/ RevisionDay
  \/ ReturnPlan

Spec == Init /\ [][Next]_vars

\* the call runs to its end: the interpreter takes the next step of a
\* sequential computation whenever there is one
LiveSpec == Init /\ [][Next]_vars /\ WF_vars(Next)

\* ------------------------------------ _calculate_topic_times on its own
\* the allocation step alone, over every weak-area set and difficulty map
\* on the topic names and on one name outside the topic list; the other
\* profile keys take the defaults of lines 43-46
AllDifficultyMaps(names) == UNION { [D -> Difficulties] : D \in SUBSET names }

AllocInit ==
  /\ pc = "alloc"
  /\ pace \in Paces
  /\ pattern = "pomodoro"
  /\ daily_hours = DFromInt(3)
  /\ preferred_times = << "evening" >>
  /\ topics \in TopicLists
  /\ weak_areas \in SUBSET AllNames
  /\ difficulty_levels \in AllDifficultyMaps(AllNames)
  /\ deadline_days = MaxDays
  /\ LocalsUnset
  /\ ChatIdle

\* lines 50-55: the call of _calculate_topic_times
AllocateTopicTimes ==
  /\ pc = "alloc"
  /\ topic_times' = CalculateTopicTimes(topics, pace, weak_areas, difficulty_levels)
  /\ pc' = "allocated"
  /\ UNCHANGED <<inputVars, total_with_revision, total_hours_available,
                 scheduleVars, plan, chatVars>>

AllocNext == AllocateTopicTimes

AllocSpec == AllocInit /\ [][AllocNext]_vars

\* ------------------------------------------------------------ StudyChatbot
Chars == {" ", "a", "b"}
IsSpace(c) == c = " "

RECURSIVE Texts(_)
Texts(n) ==
  IF n = 0 THEN { << >> }
  ELSE LET shorter == Texts(n - 1)
       IN  shorter \cup { Append(t, c) : t \in { u \in shorter : Len(u) = n - 1 },
                                          c \in Chars }

RECURSIVE LStrip(_)
LStrip(t) == IF t # << >> /\ IsSpace(Head(t)) THEN LStrip(Tail(t)) ELSE t

RECURSIVE RStrip(_)
RStrip(t) ==
  IF t # << >> /\ IsSpace(t[Len(t)]) THEN RStrip(SubSeq(t, 1, Len(t) - 1)) ELSE t

\* str.strip()
Strip(t) == RStrip(LStrip(t))

Questions == { << "a" >>, << "b", " ", "a" >> }
Contexts == { << >>, << "b" >> }

\* what self.chain.invoke can do: return a message whose content is a
\* string, return a message without a string content, or raise
RemoteOutcomes ==
  { [kind |-> "message", content |-> t] : t \in Texts(MaxAnswerLen) }
  \cup { [kind |-> "malformed"] }
  \cup { [kind |-> "raise", error |-> e] : e \in {"network", "quota"} }

\* the exception that lines 40-45 raise for an outcome, "none" if they
\* complete
Raised(outcome) ==
  IF outcome.kind = "raise" THEN outcome.error
  ELSE IF outcome.kind = "malformed" THEN "AttributeError"
  ELSE "none"

\* faulty variant: only the errors of the remote service are caught
CaughtRemoteErrorsOnly(exception) == exception \in {"network", "quota"}

\* line 46: except Exception
Caught(exception) == exception # "none"

ChatInit ==
  /\ chat_pc = "ready"
  /\ question \in Questions
  /\ context \in Contexts
  /\ remote = NoRemote
  /\ invocations = 0
  /\ answer = << >>
  /\ pc = "unused"
  /\ pace = "moderate"
  /\ pattern = "pomodoro"
  /\ daily_hours = DFromInt(3)
  /\ preferred_times = << "evening" >>
  /\ topics = << 1 >>
  /\ weak_areas = {}
  /\ difficulty_levels = << >>
  /\ deadline_days = MaxDays
  /\ LocalsUnset

\* lines 38-43: ask() submits the prompt; the remote call is in flight
AskInvoke ==
  /\ chat_pc = "ready"
  /\ invocations' = invocations + 1
  /\ remote' \in RemoteOutcomes
  /\ chat_pc' = "invoked"
  /\ UNCHANGED <<pc, inputVars, topic_times, total_with_revision,
                 total_hours_available, scheduleVars, plan,
                 question, context, answer>>

\* lines 45-50: the remote call is over and ask() ends
AskReturn ==
  /\ chat_pc = "invoked"
  /\ LET exception == Raised(remote)
     IN  answer' =
           IF exception = "none"
             THEN [kind |-> "text", value |-> Strip(remote.content)]
           ELSE IF Caught(exception)
             THEN [kind |-> "text", value |-> << "Error: ", exception >>]
           ELSE [kind |-> "raised", value |-> << exception >>]
  /\ chat_pc' = "returned"
  /\ UNCHANGED <<pc, inputVars, topic_times, total_with_revision,
                 total_hours_available, scheduleVars, plan,
                 question, context, remote, invocations>>

ChatNext == AskInvoke \/ AskReturn

ChatSpec == ChatInit /\ [][ChatNext]_vars


\* ================================================================== claims
Returned == pc = "done"
ReturnedFeasible == pc = "done" /\ plan.feasible = TRUE
ReturnedInfeasible == pc = "done" /\ plan.feasible = FALSE

FeasibleFields ==
  {"feasible", "subject", "student_profile", "total_topics", "deadline",
   "total_hours_needed", "total_hours_available", "buffer_hours",
   "daily_plan", "study_tips"}
InfeasibleFields == {"feasible", "message", "hours_short", "suggestions"}

\* the decimal values the inputs stand for, in 1/3000 hour: the sum of the
\* one-decimal allocations times (1 + revision_ratio), and deadline_days
\* times daily_available_hours
RECURSIVE AllocatedUnits(_)
AllocatedUnits(tops) ==
  IF tops = << >> THEN 0
  ELSE topic_times[Head(tops)].u + AllocatedUnits(Tail(tops))

NeededDecimal ==
  AllocatedUnits(topics) * (10 + learning_pace[pace].revision_ratio)
AvailableDecimal == 10 * deadline_days * daily_hours.u

\* C1: every feasible plan has exactly deadline_days entries in daily_plan,
\* for every positive deadline_days, 1 and 2 included.
C1_DayCount ==
  ReturnedFeasible => Len(plan.daily_plan) = deadline_days

\* C2: the plan is infeasible exactly when the needed hours are strictly
\* greater than the available hours; needed equal to available is feasible.
C2_BoundaryInclusive ==
  Returned => (plan.feasible = FALSE <=> NeededDecimal > AvailableDecimal)

\* C3 as stated: a returned plan has exactly the fields of its branch, and a
\* feasible plan reports total_hours_needed <= total_hours_available.
C3_ReportedNeededWithinAvailable ==
  Returned =>
    IF plan.feasible
      THEN /\ DOMAIN plan = FeasibleFields
           /\ DLe(plan.total_hours_needed, plan.total_hours_available)
      ELSE DOMAIN plan = InfeasibleFields

\* C3 as amended: a returned plan has exactly the fields of its branch; in a
\* feasible plan the needed hours before rounding are <= the available
\* hours, and the reported total_hours_needed, which is rounded to one
\* decimal, is above the decimal value of total_hours_available by at most
\* 0.05 hour.
C3_FeasibleOrInfeasible ==
  Returned =>
    IF plan.feasible
      THEN /\ DOMAIN plan = FeasibleFields
           /\ DLe(total_with_revision, plan.total_hours_available)
           /\ 2 * (plan.total_hours_needed.u - plan.total_hours_available.u)
                <= Tenth
      ELSE /\ DOMAIN plan = InfeasibleFields
           /\ DGt(total_with_revision, total_hours_available)

\* a feasible plan whose rounded total_hours_needed is above its available
\* hours, and the needed hours strictly below them
C3_Witness ==
  /\ ReturnedFeasible
  /\ DGt(plan.total_hours_needed, plan.total_hours_available)
  /\ DLt(total_with_revision, plan.total_hours_available)

\* C4: in a feasible plan, with revision_days = max(2, floor(0.2 *
\* deadline_days)), the last day is "Final Review & Mock Test", the day
\* before it "Intensive Revision", every earlier revision day "Revision",
\* and the days before the revision phase, deadline_days - revision_days of
\* them when that is positive, are "Learning".
C4_Phases ==
  ReturnedFeasible =>
    LET dp == plan.daily_plan
        n == Len(dp)
        fifth == deadline_days \div 5
        rd == IF fifth > 2 THEN fifth ELSE 2
        sd == deadline_days - rd
        learning == IF sd > 0 THEN sd ELSE 0
    IN  /\ n = learning + rd
        /\ dp[n].phase = "Final Review & Mock Test"
        /\ dp[n - 1].phase = "Intensive Revision"
        /\ \A i \in 1 .. n :
             /\ i <= learning => dp[i].phase = "Learning"
             /\ (learning < i /\ i < n - 1) => dp[i].phase = "Revision"

\* a returned plan with Learning days and a plain Revision day before the
\* last two days
C4_Witness ==
  /\ ReturnedFeasible
  /\ plan.daily_plan[1].phase = "Learning"
  /\ \E i \in 1 .. Len(plan.daily_plan) : plan.daily_plan[i].phase = "Revision"

\* C5: an infeasible plan has hours_short = needed - available, and its
\* suggestions are the daily-hours suggestion if and only if needed /
\* deadline_days <= 12, then the deadline suggestion for a new deadline of
\* floor(needed / daily_hours) + 1 days, then the 'fast' pace suggestion.
\* The figures are compared as the decimal values they stand for.
C5_InfeasibleResponse ==
  ReturnedInfeasible =>
    LET new_deadline == (NeededDecimal \div (10 * daily_hours.u)) + 1
        sug == plan.suggestions
        withDaily == NeededDecimal <= 12 * 10 * HourUnits * deadline_days
    IN  /\ 10 * plan.hours_short.u = NeededDecimal - AvailableDecimal
        /\ Len(sug) = (IF withDaily THEN 3 ELSE 2)
        /\ withDaily => sug[1].kind = "daily_hours"
        /\ sug[Len(sug) - 1] = [kind |-> "extend_deadline",
                                by_days |-> new_deadline - deadline_days]
        /\ sug[Len(sug)].kind = "fast_pace"

\* C6: a topic's allocation is the pace's base hours (slow 4.0, moderate
\* 2.5, fast 1.5), times 1.5 for a weak area, times 1.3 for "hard" or 0.7
\* for "easy" (nothing further for "medium" or no entry), rounded to one
\* decimal; only the topics of the list get an allocation, and entries for
\* other names change nothing; moderate, weak and hard gives 4.9 hours.
C6_Allocation ==
  pc = "allocated" =>
    /\ DOMAIN topic_times = TopicSet
    /\ \A t \in TopicSet :
         LET baseTenths == IF pace = "slow" THEN 40
                           ELSE IF pace = "moderate" THEN 25 ELSE 15
             weakPct == IF t \in weak_areas THEN 150 ELSE 100
             tag == IF t \in DOMAIN difficulty_levels
                      THEN difficulty_levels[t] ELSE "unspecified"
             diffPct == IF tag = "hard" THEN 130
                        ELSE IF tag = "easy" THEN 70 ELSE 100
             \* the unrounded hours, in 1/100000 hour
             exact == baseTenths * weakPct * diffPct
             \* the allocation, in tenths and in 1/100000 hour
             tenths == topic_times[t].u \div Tenth
             got == tenths * 10000
         IN  /\ topic_times[t] = DFromTenths(tenths)
             /\ 2 * (got - exact) <= 10000
             /\ 2 * (exact - got) <= 10000
             /\ (pace = "moderate" /\ weakPct = 150 /\ tag = "hard")
                  => topic_times[t] = DFromTenths(49)

\* the allocation of the example, next to weak-area and difficulty entries
\* for a name that is not a topic
C6_Witness ==
  /\ pc = "allocated"
  /\ pace = "moderate"
  /\ 1 \in weak_areas
  /\ 1 \in DOMAIN difficulty_levels
  /\ difficulty_levels[1] = "hard"
  /\ topic_times[1] = DFromTenths(49)
  /\ (MaxTopics + 1) \in weak_areas
  /\ (MaxTopics + 1) \in DOMAIN difficulty_levels

\* C7: ask never propagates a failure of the remote call: whatever the
\* remote call does, ask returns a text after exactly one invocation, the
\* generated text without its surrounding whitespace on success and an
\* error message on failure.
C7_AskReturnsText ==
  chat_pc = "returned" =>
    /\ invocations = 1
    /\ answer.kind = "text"
    /\ IF remote.kind = "message"
         THEN LET v == answer.value
                  c == remote.content
              IN  /\ v # << >> => (v[1] # " " /\ v[Len(v)] # " ")
                  /\ \E i \in 0 .. Len(c) :
                       /\ i + Len(v) <= Len(c)
                       /\ \A k \in 1 .. Len(c) :
                            IF k > i /\ k <= i + Len(v)
                              THEN c[k] = v[k - i]
                              ELSE c[k] = " "
         ELSE answer.value[1] = "Error: "

\* ask has returned a text after a malformed response
C7_Witness ==
  /\ chat_pc = "returned"
  /\ remote.kind = "malformed"
  /\ answer.kind = "text"

\* the Learning sessions emitted so far, in day order and in session order
\* within each day
RECURSIVE LearningSessionsOf(_)
LearningSessionsOf(dp) ==
  IF dp = << >> THEN << >>
  ELSE (IF Head(dp).phase = "Learning" THEN Head(dp).sessions ELSE << >>)
         \o LearningSessionsOf(Tail(dp))

SessionsSoFar ==
  LearningSessionsOf(daily_plan)
    \o (IF pc = "sessions" THEN day_schedule.sessions ELSE << >>)

Scheduling == pc \in {"study", "sessions", "revision", "return"} \/ ReturnedFeasible

PositionOf(t) == CHOOSE i \in 1 .. Len(topics) : topics[i] = t

\* the hours of the sessions of topic t, added in the order of the sessions
LoggedHours(t, sessions) ==
  LET mine == SelectSeq(sessions, LAMBDA s : s.topic = t)
  IN  DSum([i \in 1 .. Len(mine) |-> mine[i].hours])

SessionCount(t, sessions) ==
  Cardinality({ i \in 1 .. Len(sessions) : sessions[i].topic = t })

\* C8: the learning loop terminates: every iteration of the inner loop
\* either emits a session of more than 0.1 hour, which lowers
\* hours_remaining, or removes the front topic from the queue, and
\* generate_personalized_plan returns.
C8_LoopTerminates ==
  /\ [][(pc = "sessions" /\ pc' = "sessions") =>
          \/ /\ Len(day_schedule'.sessions) = Len(day_schedule.sessions) + 1
             /\ DGt(day_schedule'.sessions[Len(day_schedule'.sessions)].hours,
                    DFromTenths(1))
             /\ DLt(hours_remaining', hours_remaining)
          \/ Len(topics_queue') < Len(topics_queue)]_vars
  /\ <>(pc = "done")

\* a returned plan with a Learning day of several sessions
C8_Witness ==
  /\ ReturnedFeasible
  /\ \E i \in 1 .. Len(plan.daily_plan) :
       /\ plan.daily_plan[i].phase = "Learning"
       /\ Len(plan.daily_plan[i].sessions) >= 2

\* C9: the learning phase consumes one FIFO queue shared by all study days:
\* the Learning sessions, read in day order and in session order, follow
\* the order of the topics list; the queue is always the rest of that list;
\* a topic's progress is the sum of its sessions over all days; and a topic
\* that has left the queue gets no further session.
C9_SharedFifoQueue ==
  /\ [](Scheduling =>
          LET done == SessionsSoFar
          IN  /\ \A i \in 1 .. Len(done) - 1 :
                   PositionOf(done[i].topic) <= PositionOf(done[i + 1].topic)
              /\ \E k \in 1 .. Len(topics) + 1 :
                   topics_queue = SubSeq(topics, k, Len(topics))
              /\ \A t \in TopicSet :
                   topic_progress[t] = LoggedHours(t, done))
  /\ [][(Scheduling /\ Scheduling') =>
          LET before == SessionsSoFar
              after == SessionsSoFar'
          IN  \A t \in TopicSet :
                (\A i \in 1 .. Len(topics_queue) : topics_queue[i] # t)
                  => SessionCount(t, after) = SessionCount(t, before)]_vars

\* a returned plan in which the first topic is studied on two days and the
\* second topic after it
C9_Witness ==
  /\ ReturnedFeasible
  /\ Len(topics) >= 2
  /\ \E i, j \in 1 .. Len(plan.daily_plan) :
       /\ i < j
       /\ plan.daily_plan[i].phase = "Learning"
       /\ plan.daily_plan[j].phase = "Learning"
       /\ \E a \in 1 .. Len(plan.daily_plan[i].sessions) :
            plan.daily_plan[i].sessions[a].topic = topics[1]
       /\ \E a, b \in 1 .. Len(plan.daily_plan[j].sessions) :
            /\ a < b
            /\ plan.daily_plan[j].sessions[a].topic = topics[1]
            /\ plan.daily_plan[j].sessions[b].topic = topics[2]

\* C10: whenever the learning loop removes a topic from the queue, the
\* topic's logged hours have reached its allocation or at most 0.1 hour of
\* it is still needed.
C10_RemovedOnlyWhenExhausted ==
  [][(pc = "sessions" /\ topics_queue' # topics_queue) =>
       LET t == Head(topics_queue)
           allocated == topic_times[t]
           logged == topic_progress'[t]
       IN  \/ DGe(logged, allocated)
           \/ DLe(Dbl(allocated.u - logged.u, allocated.e - logged.e),
                  Dbl(Tenth, 0))]_vars


\* the Learning days so far, the day under construction included
LearningDaysSoFar ==
  SelectSeq(daily_plan, LAMBDA d : d.phase = "Learning")
    \o (IF pc = "sessions" THEN << day_schedule >> ELSE << >>)

\* C11: on every Learning day the day's total_hours is the sum of the
\* lengths of the day's sessions and is at most daily_available_hours;
\* every session is longer than 0.1 hour and no longer than the pattern's
\* session length; and no topic's logged hours, added over all days, exceed
\* its allocation.
C11_BudgetInvariants ==
  Scheduling =>
    /\ \A i \in 1 .. Len(LearningDaysSoFar) :
         LET d == LearningDaysSoFar[i]
         IN  /\ d.total_hours =
                  DSum([k \in 1 .. Len(d.sessions) |-> d.sessions[k].hours])
             /\ DLe(d.total_hours, daily_hours)
    /\ \A i \in 1 .. Len(SessionsSoFar) :
         /\ DGt(SessionsSoFar[i].hours, MinSessionHours)
         /\ DLe(SessionsSoFar[i].hours, SessionLengthHours[pattern])
    /\ \A t \in TopicSet :
         DLe(LoggedHours(t, SessionsSoFar), topic_times[t])

\* a returned plan with a Learning day whose last session the hours left
\* in the day cut short, and a topic logged up to its allocation
C11_Witness ==
  /\ ReturnedFeasible
  /\ \E i \in 1 .. Len(plan.daily_plan) :
       LET d == plan.daily_plan[i]
       IN  /\ d.phase = "Learning"
           /\ Len(d.sessions) >= 2
           /\ DLt(d.sessions[Len(d.sessions)].hours, SessionLengthHours[pattern])
           /\ DLt(topic_progress[d.sessions[Len(d.sessions)].topic],
                  topic_times[d.sessions[Len(d.sessions)].topic])
  /\ \E t \in TopicSet : topic_progress[t] = topic_times[t]

\* new_deadline of line 351, read back from the deadline suggestion
SuggestedDeadline ==
  deadline_days + plan.suggestions[Len(plan.suggestions) - 1].by_days

\* total_hours_available of a second call with the same profile and topics
\* and the suggested deadline
AvailableAtSuggestedDeadline ==
  DMul(DFromInt(SuggestedDeadline), daily_hours, HourUnits)

\* C12: in an infeasible plan the suggested new deadline is greater than
\* deadline_days, new_deadline * daily_hours is greater than the needed
\* hours, so that a second call with the suggested deadline passes the
\* feasibility test, and the suggested daily hours needed / deadline_days
\* are greater than daily_hours.  The figures are the program's doubles.
C12_SuggestionsAdequate ==
  ReturnedInfeasible =>
    /\ SuggestedDeadline > deadline_days
    /\ DGt(AvailableAtSuggestedDeadline, total_with_revision)
    /\ ~Infeasible(total_with_revision, AvailableAtSuggestedDeadline)
    /\ DGt(DDivInt(total_with_revision, deadline_days),
           Dbl(deadline_days * daily_hours.u, deadline_days * daily_hours.e))
=============================================================================
